---- MODULE Spec2Model ----
(***************************************************************************)
(* Pin Fixer (src/pin-fixer.js): a static class that rescales map pins and *)
(* HUD overlays of a canvas as the canvas zoom changes.                    *)
(*                                                                         *)
(* JavaScript numbers are binary floating point.  A number is modelled as  *)
(* a record: a finite value m * 2^e (m odd, or m = 0 and e = 0), an        *)
(* infinity (m carries the sign) or NaN.  Every arithmetic operation       *)
(* computes the exact result and rounds it to Precision significant bits,  *)
(* round-to-nearest, ties-to-even, as IEEE 754 does with 53 bits.  The     *)
(* exponent range is unbounded and zero carries no sign.                   *)
(***************************************************************************)
EXTENDS Integers, Sequences, FiniteSets, TLC

\* number of significant bits kept by every arithmetic operation
Precision == 4
\* largest number of notes (pins) the host places on the canvas
MaxNotes == 1

----------------------------------------------------------------------------
(* Numbers *)

Abs(i) == IF i < 0 THEN 0 - i ELSE i

Sgn(i) == IF i < 0 THEN 0 - 1 ELSE 1

RECURSIVE Pow2(_)
Pow2(n) == IF n <= 0 THEN 1 ELSE 2 * Pow2(n - 1)

RECURSIVE BitLen(_)
BitLen(i) == IF i = 0 THEN 0 ELSE 1 + BitLen(i \div 2)

NaN == [k |-> "nan", m |-> 0, e |-> 0]

PosInf == [k |-> "inf", m |-> 1, e |-> 0]

NegInf == [k |-> "inf", m |-> 0 - 1, e |-> 0]

Inf(s) == IF s < 0 THEN NegInf ELSE PosInf

RECURSIVE Fin(_, _)
Fin(m, e) ==
    IF m = 0 THEN [k |-> "fin", m |-> 0, e |-> 0]
    ELSE IF m % 2 = 0 THEN Fin(m \div 2, e + 1)
    ELSE [k |-> "fin", m |-> m, e |-> e]

\* s * M * 2^E (M >= 0) rounded to Precision bits; sticky says that the exact
\* value lies strictly above M * 2^E (bits below the last bit of M are lost)
Round(s, M, E, sticky) ==
    LET drop == BitLen(M) - Precision
    IN  IF drop <= 0 THEN Fin(s * M, E)
        ELSE LET q    == M \div Pow2(drop)
                 r    == M % Pow2(drop)
                 half == Pow2(drop - 1)
                 up   == \/ r > half
                         \/ r = half /\ (sticky \/ q % 2 = 1)
             IN  Fin(s * (IF up THEN q + 1 ELSE q), E + drop)

IsNaN(a) == a.k = "nan"

IsInf(a) == a.k = "inf"

IsFinite(a) == a.k = "fin"

IsZero(a) == a.k = "fin" /\ a.m = 0

Neg(a) == IF IsNaN(a) THEN NaN ELSE [a EXCEPT !.m = 0 - a.m]

Add(a, b) ==
    IF IsNaN(a) \/ IsNaN(b) THEN NaN
    ELSE IF IsInf(a) /\ IsInf(b) THEN (IF a.m = b.m THEN a ELSE NaN)
    ELSE IF IsInf(a) THEN a
    ELSE IF IsInf(b) THEN b
    ELSE LET lo  == IF a.e < b.e THEN a.e ELSE b.e
             sum == a.m * Pow2(a.e - lo) + b.m * Pow2(b.e - lo)
         IN  Round(Sgn(sum), Abs(sum), lo, FALSE)

Sub(a, b) == Add(a, Neg(b))

Mul(a, b) ==
    IF IsNaN(a) \/ IsNaN(b) THEN NaN
    ELSE IF IsInf(a) \/ IsInf(b)
         THEN (IF IsZero(a) \/ IsZero(b) THEN NaN ELSE Inf(Sgn(a.m) * Sgn(b.m)))
    ELSE Round(Sgn(a.m) * Sgn(b.m), Abs(a.m) * Abs(b.m), a.e + b.e, FALSE)

Div(a, b) ==
    IF IsNaN(a) \/ IsNaN(b) THEN NaN
    ELSE IF IsInf(a) THEN (IF IsInf(b) THEN NaN ELSE Inf(Sgn(a.m) * Sgn(b.m)))
    ELSE IF IsInf(b) THEN Fin(0, 0)
    ELSE IF IsZero(b) THEN (IF IsZero(a) THEN NaN ELSE Inf(Sgn(a.m)))
    ELSE IF IsZero(a) THEN Fin(0, 0)
    ELSE LET shift == Precision + 1 + BitLen(Abs(b.m))
             num   == Abs(a.m) * Pow2(shift)
             den   == Abs(b.m)
         IN  Round(Sgn(a.m) * Sgn(b.m), num \div den, a.e - b.e - shift,
                   num % den # 0)

\* a < b; false when either is NaN
Less(a, b) ==
    IF IsNaN(a) \/ IsNaN(b) THEN FALSE
    ELSE IF IsInf(a) THEN a.m < 0 /\ b # a
    ELSE IF IsInf(b) THEN b.m > 0
    ELSE LET lo == IF a.e < b.e THEN a.e ELSE b.e
         IN  a.m * Pow2(a.e - lo) < b.m * Pow2(b.e - lo)

LessEq(a, b) == IF IsNaN(a) \/ IsNaN(b) THEN FALSE ELSE a = b \/ Less(a, b)

\* Math.max and Math.min of two numbers
MathMax(a, b) ==
    IF IsNaN(a) \/ IsNaN(b) THEN NaN ELSE IF Less(a, b) THEN b ELSE a

MathMin(a, b) ==
    IF IsNaN(a) \/ IsNaN(b) THEN NaN ELSE IF Less(b, a) THEN b ELSE a

\* the number an integer literal denotes
Whole(n) == Round(Sgn(n), Abs(n), 0, FALSE)

\* the number a decimal literal with value n / d denotes
Lit(n, d) == Div(Whole(n), Whole(d))

Zero == Whole(0)

One == Whole(1)

Two == Whole(2)

Three == Whole(3)

Half == Lit(1, 2)

Quarter == Lit(1, 4)

Tenth == Lit(1, 10)

Twentieth == Lit(1, 20)

Twenty == Whole(20)

----------------------------------------------------------------------------
(* JavaScript values held by the scene's flag bag *)

Undefined == [t |-> "undefined"]

Null == [t |-> "null"]

Num(v) == [t |-> "number", v |-> v]

Bool(b) == [t |-> "boolean", v |-> b]

\* the pinfix record: each field holds a value or is absent (Undefined)
PinFix(en, zf, zc, mn, mx, hs) ==
    [t |-> "object", enable |-> en, zoomFloor |-> zf, zoomCeil |-> zc,
     minScale |-> mn, maxScale |-> mx, hudScale |-> hs]

IsNullish(v) == v.t \in {"undefined", "null"}

\* obj?.field
OptChain(obj, field) == IF IsNullish(obj) THEN Undefined ELSE obj[field]

\* v ?? d
Coalesce(v, d) == IF IsNullish(v) THEN d ELSE v

\* Boolean(v)
Boolean(v) ==
    CASE v.t = "boolean" -> v.v
      [] v.t = "number"  -> ~IsNaN(v.v) /\ ~IsZero(v.v)
      [] v.t = "object"  -> TRUE
      [] OTHER           -> FALSE

\* Number(v)
Number(v) ==
    CASE v.t = "number"  -> v.v
      [] v.t = "boolean" -> (IF v.v THEN One ELSE Zero)
      [] v.t = "null"    -> Zero
      [] OTHER           -> NaN

----------------------------------------------------------------------------
(* State *)

VARIABLES
    flags,       \* canvas.scene.data.flags
    stageScale,  \* canvas.stage.scale.x
    notes,       \* canvas.notes.objects.children: each note's transform.scale
    document,    \* HUD element id -> whether mounted, and its style.transform
    last,        \* the hook delivered last and its arguments
    replaced     \* hudScale and hudScaleFactor under the flags replaced last

vars == <<flags, stageScale, notes, document, last, replaced>>

----------------------------------------------------------------------------
(* PinFixer *)

minCanvScale == Tenth

\* CONFIG.Canvas.maxZoom, 3 in the host's configuration
maxCanvScale == Three

enabled == Boolean(OptChain(flags.pinfix, "enable"))

zoomFloor == Number(Coalesce(OptChain(flags.pinfix, "zoomFloor"), Num(minCanvScale)))

\* mutant: the ceiling falls back to the minimum canvas zoom
zoomCeilDefaultsToMin ==
    Number(Coalesce(OptChain(flags.pinfix, "zoomCeil"), Num(minCanvScale)))

zoomCeil == Number(Coalesce(OptChain(flags.pinfix, "zoomCeil"), Num(maxCanvScale)))

minScale == Number(Coalesce(OptChain(flags.pinfix, "minScale"), Num(One)))

maxScale == Number(Coalesce(OptChain(flags.pinfix, "maxScale"), Num(One)))

hudScale == Number(Coalesce(OptChain(flags.pinfix, "hudScale"), Num(One)))

huds ==
    << [hook |-> "renderPinCushionHUD", id |-> "pin-cushion-hud"],
       [hook |-> "renderPoiTpHUD", id |-> "poi-tp-ctx-menu"] >>

HudIds == {huds[i].id : i \in DOMAIN huds}

reciprocal(number) == Div(One, number)

\* mutant: a degenerate source interval maps everything to the start of the target
mapGuarded(from, to, s) ==
    IF from[1] = from[2] THEN to[1]
    ELSE Add(to[1], Div(Mul(Sub(s, from[1]), Sub(to[2], to[1])), Sub(from[2], from[1])))

map(from, to, s) ==
    Add(to[1], Div(Mul(Sub(s, from[1]), Sub(to[2], to[1])), Sub(from[2], from[1])))

\* Math.clamped(num, min, max), the host's helper: Math.min(max, Math.max(num, min))
MathClamped(num, min, max) == MathMin(max, MathMax(num, min))

\* mutant: the ceiling is not applied
clampZoomFloorOnly(zoom) == MathMax(zoom, zoomFloor)

clampZoom(zoom) == MathClamped(zoom, zoomFloor, zoomCeil)

remapZoom(zoom) == map(<<zoomFloor, zoomCeil>>, <<minScale, maxScale>>, zoom)

noteScaleFactor(scale) == remapZoom(clampZoom(scale))

noteScaleBasic(scale) == reciprocal(scale)

\* mutant: HUDs follow the pins' remap curve
hudScaleFactorCurved(scale) ==
    Mul(Mul(reciprocal(scale), remapZoom(clampZoom(scale))), hudScale)

hudScaleFactor(scale) == Mul(noteScaleBasic(scale), hudScale)

\* mutant: the canvas zoom is not undone
noteScaleConfiguredNoReciprocal(scale) == noteScaleFactor(scale)

noteScaleConfigured(scale) == Mul(reciprocal(scale), noteScaleFactor(scale))

\* the text `scale(${scale})`
ScaleText(scale) == <<"scale(", scale, ")">>

\* the empty text ""
EmptyText == << >>

\* mutant: only the x component is set
scaleNoteXOnly(note, scale) == [note EXCEPT !.x = scale]

\* mutant: the scale is applied on top of the note's current scale
scaleNoteRelative(note, scale) ==
    [note EXCEPT !.x = Mul(note.x, scale), !.y = Mul(note.y, scale)]

scaleNote(note, scale) == [note EXCEPT !.x = scale, !.y = scale]

scaleNotes(children, scale) ==
    [n \in DOMAIN children |-> scaleNote(children[n], noteScaleConfigured(scale))]

scaleHUD(doc, hudId, scale) ==
    IF doc[hudId].mounted
    THEN [doc EXCEPT ![hudId].transform = ScaleText(scale)]
    ELSE doc

RECURSIVE ScaleEach(_, _, _)
ScaleEach(doc, i, scale) ==
    IF i > Len(huds) THEN doc
    ELSE ScaleEach(scaleHUD(doc, huds[i].id, scale), i + 1, scale)

scaleHUDs(doc, scale) == ScaleEach(doc, 1, hudScaleFactor(scale))

resetHudScale(doc, hudId) ==
    IF doc[hudId].mounted
    THEN [doc EXCEPT ![hudId].transform = EmptyText]
    ELSE doc

RECURSIVE ResetEach(_, _)
ResetEach(doc, i) ==
    IF i > Len(huds) THEN doc
    ELSE ResetEach(resetHudScale(doc, huds[i].id), i + 1)

resetHUDs(doc) == ResetEach(doc, 1)

\* the handlers below return the canvas (notes and document) they leave
reset(children, doc) ==
    [notes |-> scaleNotes(children, One), document |-> resetHUDs(doc)]

\* mutant: the enabled flag is not consulted
canvasPanUnguarded(children, doc, scale) ==
    [notes |-> scaleNotes(children, scale), document |-> scaleHUDs(doc, scale)]

canvasPan(children, doc, scale) ==
    IF ~enabled THEN [notes |-> children, document |-> doc]
    ELSE [notes |-> scaleNotes(children, scale), document |-> scaleHUDs(doc, scale)]

renderHUD(children, doc, id) ==
    IF ~enabled THEN [notes |-> children, document |-> doc]
    ELSE [notes |-> children,
          document |-> scaleHUD(doc, id, hudScaleFactor(stageScale))]

\* mutant: a scene that is not enabled is left as it is
updateSceneNoReset(children, doc) == canvasPan(children, doc, stageScale)

updateScene(children, doc) ==
    IF ~enabled THEN reset(children, doc)
    ELSE canvasPan(children, doc, stageScale)

----------------------------------------------------------------------------
(* The hooks the host delivers, and what the host does to the canvas *)

\* zoom levels the canvas is panned to
Zooms == {One, Two}

Four == Whole(4)

\* zoom levels the scale calculation is examined at
CalcZooms == {Zero, Twentieth, One, Two, Four}

\* what the HUD scale calculation yields under the current flags
HudScaling == [hudScale |-> hudScale, factor |-> [z \in CalcZooms |-> hudScaleFactor(z)]]

\* pinfix records the scene configuration form stores
\* <<zoomFloor, zoomCeil, minScale, maxScale, hudScale>>: the defaults, a falling
\* curve, a degenerate zoom interval, and a constant pin scale of 2
Curves ==
    { <<Undefined, Undefined, Undefined, Undefined, Undefined>>,
      <<Undefined, Num(Two), Undefined, Num(Half), Num(Two)>>,
      <<Num(Two), Num(Two), Undefined, Num(Half), Undefined>>,
      <<Undefined, Undefined, Num(Two), Num(Two), Num(Two)>> }

\* no pinfix record yet, every curve enabled, and the constant scale disabled
SceneFlags ==
    {Undefined, PinFix(Bool(FALSE), Undefined, Undefined, Num(Two), Num(Two), Num(Two))}
    \cup {PinFix(Bool(TRUE), c[1], c[2], c[3], c[4], c[5]) : c \in Curves}

Notes == 1 .. MaxNotes

NewNote == [x |-> One, y |-> One]

NoElement == [mounted |-> FALSE, transform |-> EmptyText]

NewElement == [mounted |-> TRUE, transform |-> EmptyText]

\* again: the hook delivered before this one was the same, with the same arguments
Event(op, scale, id, again) == [op |-> op, scale |-> scale, id |-> id, again |-> again]

HostEvent == Event("host", One, "", FALSE)

Init ==
    /\ flags = [pinfix |-> Undefined]
    /\ stageScale = One
    /\ notes = << >>
    /\ document = [id \in HudIds |-> NoElement]
    /\ last = Event("init", One, "", FALSE)
    /\ replaced = HudScaling

\* Hooks.on("canvasPan", ...)
OnCanvasPan(scale) ==
    /\ LET left == canvasPan(notes, document, scale)
       IN  notes' = left.notes /\ document' = left.document
    /\ last' = Event("canvasPan", scale, "", last.op = "canvasPan" /\ last.scale = scale)
    /\ UNCHANGED <<flags, stageScale, replaced>>

\* Hooks.on(hud.hook, ...)
OnRenderHUD(id) ==
    /\ LET left == renderHUD(notes, document, id)
       IN  notes' = left.notes /\ document' = left.document
    /\ last' = Event("renderHUD", stageScale, id, last.op = "renderHUD" /\ last.id = id)
    /\ UNCHANGED <<flags, stageScale, replaced>>

\* Hooks.on("updateScene", ...)
OnUpdateScene ==
    /\ LET left == updateScene(notes, document)
       IN  notes' = left.notes /\ document' = left.document
    /\ last' = Event("updateScene", stageScale, "", last.op = "updateScene")
    /\ UNCHANGED <<flags, stageScale, replaced>>

\* the scene configuration form is submitted
HostSetFlags(pinfix) ==
    /\ flags' = [pinfix |-> pinfix]
    /\ replaced' = HudScaling
    /\ last' = HostEvent
    /\ UNCHANGED <<stageScale, notes, document>>

\* the stage is zoomed
HostZoom(scale) ==
    /\ stageScale' = scale
    /\ last' = HostEvent
    /\ UNCHANGED <<flags, notes, document, replaced>>

HostCreateNote ==
    /\ Len(notes) < MaxNotes
    /\ notes' = Append(notes, NewNote)
    /\ last' = HostEvent
    /\ UNCHANGED <<flags, stageScale, document, replaced>>

HostDeleteNote(n) ==
    /\ n \in DOMAIN notes
    /\ notes' = SubSeq(notes, 1, n - 1) \o SubSeq(notes, n + 1, Len(notes))
    /\ last' = HostEvent
    /\ UNCHANGED <<flags, stageScale, document, replaced>>

HostMountHUD(id) ==
    /\ ~document[id].mounted
    /\ document' = [document EXCEPT ![id] = NewElement]
    /\ last' = HostEvent
    /\ UNCHANGED <<flags, stageScale, notes, replaced>>

HostUnmountHUD(id) ==
    /\ document[id].mounted
    /\ document' = [document EXCEPT ![id] = NoElement]
    /\ last' = HostEvent
    /\ UNCHANGED <<flags, stageScale, notes, replaced>>

Next ==
    \/ \E scale \in Zooms : OnCanvasPan(scale)
    \/ \E id \in HudIds : OnRenderHUD(id)
    \/ OnUpdateScene
    \/ \E pinfix \in SceneFlags : HostSetFlags(pinfix)
    \/ \E scale \in Zooms : HostZoom(scale)
    \/ HostCreateNote
    \/ \E n \in Notes : HostDeleteNote(n)
    \/ \E id \in HudIds : HostMountHUD(id)
    \/ \E id \in HudIds : HostUnmountHUD(id)

Spec == Init /\ [][Next]_vars

----------------------------------------------------------------------------
(* The scale calculation over a wider range of configurations: the scene's *)
(* flags are whatever the host stored, and only the hooks act              *)

CalcFlags ==
    {Undefined, Null} \cup
    {PinFix(en, zf, zc, mn, mx, hs) :
        en \in {Undefined, Null, Bool(TRUE), Bool(FALSE)},
        zf \in {Undefined, Null, Num(Two)},
        zc \in {Undefined, Null, Num(One), Num(Two)},
        mn \in {Undefined, Null, Num(Two)},
        mx \in {Undefined, Null, Num(Half), Num(Tenth)},
        hs \in {Undefined, Null, Num(Two)}}

InitCalc ==
    /\ flags \in {[pinfix |-> p] : p \in CalcFlags}
    /\ stageScale = Two
    /\ notes = [n \in Notes |-> NewNote]
    /\ document = [id \in HudIds |-> NewElement]
    /\ last = Event("init", One, "", FALSE)
    /\ replaced = HudScaling

NextCalc ==
    \/ \E scale \in CalcZooms : OnCanvasPan(scale)
    \/ \E id \in HudIds : OnRenderHUD(id)
    \/ OnUpdateScene

SpecCalc == InitCalc /\ [][NextCalc]_vars

----------------------------------------------------------------------------
(* Properties *)

AllNotesScaled(scale) ==
    \A n \in DOMAIN notes : notes[n].x = scale /\ notes[n].y = scale

AllMountedHUDs(text) ==
    \A id \in HudIds : document[id].mounted => document[id].transform = text

\* C1: after reset() has run (updateScene on a scene that is not enabled), every
\* pin has scale x = y = exactly 1 and every mounted known HUD has an empty
\* transform, whatever the scene's configuration
C1_ResetRestoresUnitScale ==
    (last.op = "updateScene" /\ ~enabled) =>
        AllNotesScaled(One) /\ AllMountedHUDs(EmptyText)

\* C2: while the scene is not enabled, a canvasPan hook with any zoom and a
\* render hook of any known HUD leave every pin's scale and every HUD
\* element's transform unchanged
C2_DisabledHooksChangeNothing ==
    [][(~enabled /\ last'.op \in {"canvasPan", "renderHUD"}) =>
           (notes' = notes /\ document' = document)]_vars

C2_Witness ==
    /\ last.op = "canvasPan"
    /\ ~enabled
    /\ \E n \in DOMAIN notes : notes[n].x # One
    /\ \E id \in HudIds : document[id].mounted /\ document[id].transform # EmptyText

\* C3: after canvasPan with zoom z on an enabled scene every pin has scale
\* x = y = (1/z) * noteScaleFactor(z), every mounted known HUD has transform
\* scale((1/z) * hudScale), and a known HUD that is not mounted is skipped
C3_PanScalesEveryNoteAndHUD ==
    (last.op = "canvasPan" /\ enabled) =>
        /\ AllNotesScaled(Mul(Div(One, last.scale), noteScaleFactor(last.scale)))
        /\ AllMountedHUDs(ScaleText(Mul(Div(One, last.scale), hudScale)))
        /\ \A id \in HudIds : ~document[id].mounted => document[id] = NoElement

C3_Witness ==
    /\ last.op = "canvasPan"
    /\ enabled
    /\ last.scale # One
    /\ DOMAIN notes # {}
    /\ \E id \in HudIds : document[id].mounted
    /\ \E id \in HudIds : ~document[id].mounted

\* C4: hudScaleFactor(zoom) is (1/zoom) * hudScale for every non-zero zoom, and
\* replacing the configuration by one with the same hudScale (other minScale,
\* maxScale, zoomFloor, zoomCeil) leaves it unchanged
C4_HudScaleIgnoresCurve ==
    /\ \A z \in CalcZooms \ {Zero} : hudScaleFactor(z) = Mul(Div(One, z), hudScale)
    /\ (replaced.hudScale = hudScale) =>
           \A z \in CalcZooms \ {Zero} : replaced.factor[z] = hudScaleFactor(z)

C4_Witness ==
    /\ last.op = "renderHUD"
    /\ enabled
    /\ hudScale = Two
    /\ replaced.hudScale = Two
    /\ minScale = maxScale
    /\ document[last.id].mounted
    /\ document[last.id].transform = ScaleText(Mul(Div(One, stageScale), Two))
    /\ stageScale # One

\* C8: delivering the same hook again, with the configuration, the zoom and the
\* pins and HUD elements unchanged in between, changes no pin scale and no HUD
\* transform
C8_HooksIdempotent ==
    [][last'.again => (notes' = notes /\ document' = document)]_vars

C8_Witness ==
    /\ last.again
    /\ last.op = "canvasPan"
    /\ enabled
    /\ \E n \in DOMAIN notes : notes[n].x # One
    /\ \E id \in HudIds : document[id].mounted

\* C9: updateScene on an enabled scene leaves the canvas as canvasPan with the
\* stage's current zoom leaves it; on a scene that is not enabled it leaves
\* the canvas as reset() leaves it
C9_UpdateSceneDispatch ==
    [][last'.op = "updateScene" =>
           [notes |-> notes', document |-> document'] =
               IF enabled THEN canvasPan(notes, document, stageScale)
               ELSE reset(notes, document)]_vars

C9_Witness ==
    /\ last.op = "updateScene"
    /\ enabled
    /\ stageScale # One
    /\ \E n \in DOMAIN notes : notes[n].x # One
    /\ \E id \in HudIds : document[id].mounted /\ document[id].transform # EmptyText

\* the configuration of the worked example: zoomFloor 0.1, zoomCeil 2.0,
\* minScale 1, maxScale 0.5
IsExampleCurve ==
    zoomFloor = Tenth /\ zoomCeil = Two /\ minScale = One /\ maxScale = Half

ExampleValues ==
    IsExampleCurve =>
        noteScaleConfigured(Twentieth) = Twenty /\ noteScaleConfigured(Two) = Quarter

\* C5 as stated: noteScaleFactor returns minScale for every zoom at or below
\* zoomFloor and maxScale for every zoom at or above zoomCeil; in the example
\* configuration noteScaleConfigured(0.05) = 20 and noteScaleConfigured(2.0) = 0.25
C5_SaturatesAtBounds ==
    /\ \A z \in CalcZooms :
          /\ LessEq(z, zoomFloor) => noteScaleFactor(z) = minScale
          /\ LessEq(zoomCeil, z) => noteScaleFactor(z) = maxScale
    /\ ExampleValues

\* C5 amended: when zoomFloor < zoomCeil, noteScaleFactor returns exactly
\* minScale for every zoom at or below zoomFloor, and for every zoom at or
\* above zoomCeil the value the remap takes at zoomCeil (maxScale up to the
\* rounding of the remap's arithmetic); the example values are exact
C5_SaturatesOnProperInterval ==
    /\ Less(zoomFloor, zoomCeil) =>
          \A z \in CalcZooms :
              /\ LessEq(z, zoomFloor) => noteScaleFactor(z) = minScale
              /\ LessEq(zoomCeil, z) => noteScaleFactor(z) = remapZoom(zoomCeil)
    /\ ExampleValues

\* a pan above the ceiling of a proper interval whose remap misses maxScale
C5_Witness ==
    /\ last.op = "canvasPan"
    /\ enabled
    /\ Less(zoomFloor, zoomCeil)
    /\ Less(zoomCeil, last.scale)
    /\ remapZoom(zoomCeil) # maxScale
    /\ AllNotesScaled(Mul(Div(One, last.scale), remapZoom(zoomCeil)))

\* C6 as stated: when minScale = maxScale = 1, noteScaleConfigured(zoom) is
\* 1/zoom for every zoom in [zoomFloor, zoomCeil]; the default configuration
\* at zoom 1.0 yields exactly 1.0
C6_ReciprocalRegime ==
    (minScale = One /\ maxScale = One) =>
        /\ \A z \in CalcZooms :
              (LessEq(zoomFloor, z) /\ LessEq(z, zoomCeil)) =>
                  noteScaleConfigured(z) = Div(One, z)
        /\ (zoomFloor = minCanvScale /\ zoomCeil = maxCanvScale) =>
              noteScaleConfigured(One) = One

\* C6 amended: the same, provided zoomFloor < zoomCeil
C6_ReciprocalOnProperInterval ==
    (minScale = One /\ maxScale = One /\ Less(zoomFloor, zoomCeil)) =>
        /\ \A z \in CalcZooms :
              (LessEq(zoomFloor, z) /\ LessEq(z, zoomCeil)) =>
                  noteScaleConfigured(z) = Div(One, z)
        /\ (zoomFloor = minCanvScale /\ zoomCeil = maxCanvScale) =>
              noteScaleConfigured(One) = One

C6_Witness ==
    /\ last.op = "canvasPan"
    /\ enabled
    /\ minScale = One /\ maxScale = One
    /\ Less(zoomFloor, zoomCeil)
    /\ LessEq(zoomFloor, last.scale) /\ LessEq(last.scale, zoomCeil)
    /\ last.scale # One
    /\ DOMAIN notes # {}
    /\ AllNotesScaled(Div(One, last.scale))

\* the stored number of a field of the pinfix record, or the default when the
\* record or the field is missing (undefined or null)
StoredOr(field, default) ==
    IF flags.pinfix.t = "object" /\ flags.pinfix[field].t = "number"
    THEN flags.pinfix[field].v
    ELSE default

SettingsRead ==
    /\ zoomFloor = StoredOr("zoomFloor", minCanvScale)
    /\ zoomCeil = StoredOr("zoomCeil", maxCanvScale)
    /\ minScale = StoredOr("minScale", One)
    /\ maxScale = StoredOr("maxScale", One)
    /\ hudScale = StoredOr("hudScale", One)
    /\ enabled = (flags.pinfix.t = "object" /\ flags.pinfix.enable = Bool(TRUE))

\* C7: for every flag bag (no pinfix record, or one with any subset of its
\* fields) each of zoomFloor, zoomCeil, minScale, maxScale, hudScale is its
\* stored value when present and otherwise its default (minimum canvas zoom,
\* maximum canvas zoom, 1, 1, 1), enabled is true only when enable is stored
\* and true, and no hook that reads the configuration changes the flags
C7_SettingsDefaultIndependently ==
    []SettingsRead /\ [][flags' = flags]_vars

C7_Witness ==
    /\ last.op = "canvasPan"
    /\ flags.pinfix.t = "object"
    /\ flags.pinfix.enable = Bool(TRUE)
    /\ flags.pinfix.zoomFloor = Undefined
    /\ flags.pinfix.zoomCeil = Num(Two)
    /\ flags.pinfix.minScale = Null
    /\ flags.pinfix.maxScale = Num(Half)
    /\ flags.pinfix.hudScale = Null
    /\ zoomCeil = Two /\ maxScale = Half /\ minScale = One

\* C10: when zoomFloor = zoomCeil, map and noteScaleFactor return a value that
\* is not finite (an infinity or NaN), and a canvasPan on an enabled scene
\* writes a value that is not finite into every pin's scale
C10_DegenerateIntervalNotGuarded ==
    (zoomFloor = zoomCeil) =>
        /\ \A s \in CalcZooms :
              /\ ~IsFinite(map(<<zoomFloor, zoomCeil>>, <<minScale, maxScale>>, s))
              /\ ~IsFinite(noteScaleFactor(s))
        /\ (last.op = "canvasPan" /\ enabled) =>
              \A n \in DOMAIN notes : ~IsFinite(notes[n].x) /\ ~IsFinite(notes[n].y)

C10_Witness ==
    /\ last.op = "canvasPan"
    /\ enabled
    /\ zoomFloor = zoomCeil
    /\ DOMAIN notes # {}
    /\ \A n \in DOMAIN notes : IsNaN(notes[n].x) /\ IsNaN(notes[n].y)

====
